---- MODULE Spec2Model ----
(***************************************************************************)
(* Model of the analysis-history controller of the text-intelligence        *)
(* frontend (src/main.js): the analyze handler with its two suspension      *)
(* points (fetch, response.json), the localStorage-backed history,          *)
(* the active selection, the rendered history list and the form state.      *)
(***************************************************************************)
EXTENDS Integers, Sequences, FiniteSets, TLC

(* ------------------------------------------------------------------ *)
(* Program constants                                                   *)
(* ------------------------------------------------------------------ *)

MAX_HISTORY_ENTRIES == 10

(* ------------------------------------------------------------------ *)
(* Bounds of the exploration                                           *)
(* ------------------------------------------------------------------ *)

\* analyze requests of a long session in which every request succeeds
LongRun == 12
\* analyze requests of a short session, in which anything may happen
ShortRun == 2
\* failed requests and failed storage writes of a short session
MaxFaults == 1
\* non-default user choices and malformed 2xx responses of a short session
MaxVariations == 1

(* ------------------------------------------------------------------ *)
(* JavaScript values                                                   *)
(* ------------------------------------------------------------------ *)

\* activeAnalysisId = null
null == "null"

FeatureNames == <<"summarize", "topics", "sentiment", "intents">>

DefaultFeatures == [summarize |-> TRUE, topics |-> FALSE, sentiment |-> FALSE, intents |-> FALSE]

\* the states of the four checkboxes a click is tried with: none checked, the
\* default, and only the last one
Toggles == {[summarize |-> FALSE, topics |-> FALSE, sentiment |-> FALSE, intents |-> FALSE],
            DefaultFeatures,
            [summarize |-> FALSE, topics |-> FALSE, sentiment |-> FALSE, intents |-> TRUE]}

\* the contents of the two input fields a click is tried with, each a string as its
\* sequence of characters: either field filled, both, or neither
InputFields == {[text |-> <<>>, url |-> <<" ", "a", " ">>],
                [text |-> <<" ", "a", " ">>, url |-> <<>>],
                [text |-> <<" ", "a", " ">>, url |-> <<"a">>],
                [text |-> <<" ">>, url |-> <<" ", " ">>]}

\* data.results: undefined, or an object whose four feature fields are each
\* "absent" (undefined), "empty" (an object without content) or "data"
undefined == [t |-> "undef", summary |-> "absent", topics |-> "absent",
              sentiments |-> "absent", intents |-> "absent"]
FullResults == [t |-> "obj", summary |-> "data", topics |-> "data",
                sentiments |-> "data", intents |-> "data"]
\* the results a response of the session carries
ResultValues == {undefined, FullResults}

\* data.error: undefined, or an object with an optional message
NoError == [t |-> "undef", message |-> ""]
ErrorValues == {NoError, [t |-> "obj", message |-> ""],
                [t |-> "obj", message |-> "quota exceeded"]}

\* the body of a response: no JSON at all, the JSON null, or a JSON object
Unparsable == [t |-> "unparsable", results |-> undefined, error |-> NoError]
JsonNull == [t |-> "null", results |-> undefined, error |-> NoError]
Bodies == {Unparsable, JsonNull}
            \cup {[t |-> "obj", results |-> r, error |-> e] : r \in ResultValues, e \in ErrorValues}

\* the reasons fetch() rejects with (error.message)
NetworkErrors == {"Failed to fetch", ""}

(* ------------------------------------------------------------------ *)
(* Pure helpers                                                        *)
(* ------------------------------------------------------------------ *)

RECURSIVE trimStart(_)
trimStart(s) == IF s # <<>> /\ Head(s) = " " THEN trimStart(Tail(s)) ELSE s

RECURSIVE trimEnd(_)
trimEnd(s) == IF s # <<>> /\ s[Len(s)] = " " THEN trimEnd(SubSeq(s, 1, Len(s) - 1)) ELSE s

\* String.prototype.trim
trim(s) == trimEnd(trimStart(s))

\* a check that looks at the first checkbox only
someFeatureFirstOnly(features) == features[FeatureNames[1]]

\* Object.values(features).some(v => v)
someFeature(features) == \E i \in 1..Len(FeatureNames) : features[FeatureNames[i]]

\* `request_${Date.now()}`
requestIdOf(t) == "request_" \o ToString(t)

\* new Date().toISOString()
toISOString(t) == "T" \o ToString(t) \o "Z"

\* the body of the request: { text: inputValue } or { url: inputValue }
requestBody(mode, inputValue) == [key |-> IF mode = "text" THEN "text" ELSE "url", value |-> inputValue]

\* URLSearchParams built from the features: the names whose flag is true, in order
RECURSIVE queryParams(_, _)
queryParams(features, i) ==
  IF i > Len(FeatureNames) THEN <<>>
  ELSE (IF features[FeatureNames[i]] THEN <<FeatureNames[i]>> ELSE <<>>)
         \o queryParams(features, i + 1)

Min(a, b) == IF a < b THEN a ELSE b

(* ------------------------------------------------------------------ *)
(* The persisted history: localStorage[HISTORY_KEY]                    *)
(* ------------------------------------------------------------------ *)

\* the field of a history entry that holds the results of feature name f
ResultField == [summarize |-> "summary", topics |-> "topics",
                sentiment |-> "sentiments", intents |-> "intents"]

\* the key JSON.stringify leaves out: a property whose value is undefined
missingKey == [t |-> "missing", summary |-> "absent", topics |-> "absent",
               sentiments |-> "absent", intents |-> "absent"]

stringifyEntry(e) == [e EXCEPT !.results = IF e.results.t = "undef" THEN missingKey ELSE e.results]

parseEntry(j) == [j EXCEPT !.results = IF j.results.t = "missing" THEN undefined ELSE j.results]

\* JSON.stringify of a list of entries: the stored text
JSONstringify(list) == [kind |-> "json", t |-> "array",
                        items |-> [i \in 1..Len(list) |-> stringifyEntry(list[i])]]

\* the slot when the key is not set: localStorage.getItem returns null
AbsentSlot == [kind |-> "absent", t |-> "none", items |-> <<>>]

\* a stored text that is no JSON: JSON.parse throws
GarbageSlot == [kind |-> "garbage", t |-> "none", items |-> <<>>]

\* stored texts that are JSON but no array: "null" and "{}"
NullSlot == [kind |-> "json", t |-> "null", items |-> <<>>]
ObjectSlot == [kind |-> "json", t |-> "object", items |-> <<>>]

\* the slots an earlier writer may have left unreadable
UnreadableSlots == {GarbageSlot, NullSlot, ObjectSlot}

\* JSON.parse of a stored text: the value it denotes (a text that is no JSON throws)
JSONparse(text) == [t |-> text.t, items |-> [i \in 1..Len(text.items) |-> parseEntry(text.items[i])]]

emptyArray == [t |-> "array", items |-> <<>>]

\* a reader that looks under another key and so never finds the stored text
getHistoryOtherKey(store) == emptyArray

\* getHistory(): [] when the key is absent or the text does not parse, else the parsed value
getHistory(store) ==
  IF store.kind = "absent" THEN emptyArray
  ELSE IF store.kind = "garbage" THEN emptyArray
  ELSE JSONparse(store)

\* a slice that keeps the tail of the list: slice(-MAX_HISTORY_ENTRIES)
sliceTail(list) ==
  SubSeq(list, Len(list) - Min(Len(list), MAX_HISTORY_ENTRIES) + 1, Len(list))

\* a slice that keeps one record too many
sliceOneMore(list) == SubSeq(list, 1, Min(Len(list), MAX_HISTORY_ENTRIES + 1))

\* history.slice(0, MAX_HISTORY_ENTRIES)
slice(list) == SubSeq(list, 1, Min(Len(list), MAX_HISTORY_ENTRIES))

\* an insert that pushes the entry at the tail instead of the head
trimmedWithPush(list, entry) == slice(list \o <<entry>>)

\* history.unshift(entry); history.slice(0, MAX_HISTORY_ENTRIES)
trimmedWith(list, entry) == slice(<<entry>> \o list)

\* the records an insert of entry drops from list
droppedBy(list, entry) == SubSeq(<<entry>> \o list, Len(trimmedWith(list, entry)) + 1, Len(list) + 1)

(* ------------------------------------------------------------------ *)
(* Rendering                                                           *)
(* ------------------------------------------------------------------ *)

\* the sidebar before the first render
NoSidebar == [title |-> "History", items |-> <<>>, clearShown |-> FALSE]

\* renderHistory(): the sidebar it leaves and whether it threw. Every item keeps the
\* entry its click handler closes over and whether it carries history-item--active.
renderHistory(store, activeId, sidebar) ==
  LET history == getHistory(store) IN
  IF history.t = "null" THEN [threw |-> TRUE, sidebar |-> sidebar]
  ELSE IF history.t # "array"
    THEN [threw |-> TRUE,
          sidebar |-> [sidebar EXCEPT !.title = "History (undefined)", !.clearShown = TRUE]]
  ELSE IF Len(history.items) = 0
    THEN [threw |-> FALSE,
          sidebar |-> [title |-> "History (0)", items |-> <<>>, clearShown |-> FALSE]]
  ELSE [threw |-> FALSE,
        sidebar |-> [title |-> "History (" \o ToString(Len(history.items)) \o ")",
                     items |-> [i \in 1..Len(history.items) |->
                                  [entry |-> history.items[i],
                                   active |-> history.items[i].id = activeId]],
                     clearShown |-> TRUE]]

\* the blocks displayResults appends for features i.. of the canonical order
RECURSIVE resultBlocks(_, _, _)
resultBlocks(results, features, i) ==
  IF i > Len(FeatureNames) THEN <<>>
  ELSE LET f == FeatureNames[i] IN
       (IF features[f] /\ results[ResultField[f]] # "absent"
          THEN <<[feature |-> f, state |-> results[ResultField[f]]]>>
          ELSE <<>>)
         \o resultBlocks(results, features, i + 1)

\* displayResults(results, features): reading a field of undefined results throws
displayResults(results, features) ==
  IF results.t = "undef" /\ someFeature(features)
    THEN [threw |-> TRUE, message |-> "Cannot read properties of undefined", blocks |-> <<>>]
    ELSE [threw |-> FALSE, message |-> "", blocks |-> resultBlocks(results, features, 1)]

\* the main area before any result and after a clear
EmptyState == [t |-> "empty-state", blocks |-> <<>>]

\* the metadata panel: hidden, or the four items of displayMetadata
NoMetadata == [shown |-> FALSE, id |-> null, mode |-> "", preview |-> <<>>]

displayMetadata(requestId, mode, input) ==
  [shown |-> TRUE, id |-> requestId, mode |-> IF mode = "text" THEN "Text" ELSE "URL",
   preview |-> IF Len(input) > 50 THEN SubSeq(input, 1, 50) \o <<".", ".", ".">> ELSE input]

\* the status line: hideStatus, showWorking, showError
Hidden == [kind |-> "hidden", message |-> ""]
showWorking(message) == [kind |-> "working", message |-> message]
showError(message) == [kind |-> "error", message |-> message]

\* a setFormDisabled that leaves the two mode buttons alone
setFormDisabledNoModeButtons(disabled) ==
  [inputs |-> disabled, features |-> disabled, language |-> disabled,
   analyzeBtn |-> disabled, textModeBtn |-> FALSE, urlModeBtn |-> FALSE]

\* a setFormDisabled that leaves the analyze button alone
setFormDisabledInputsOnly(disabled) ==
  [inputs |-> disabled, features |-> disabled, language |-> disabled,
   analyzeBtn |-> FALSE, textModeBtn |-> disabled, urlModeBtn |-> disabled]

\* setFormDisabled(disabled): every control of the form
setFormDisabled(disabled) == [inputs |-> disabled, features |-> disabled, language |-> disabled,
                              analyzeBtn |-> disabled, textModeBtn |-> disabled,
                              urlModeBtn |-> disabled]

(* ------------------------------------------------------------------ *)
(* State                                                               *)
(* ------------------------------------------------------------------ *)

VARIABLES
  localStorage,      \* the value stored under HISTORY_KEY
  activeAnalysisId,  \* the id of the analysis shown, or null
  inputMode,         \* "text" or "url"
  formControls,      \* the disabled flag of every control of the form
  status,            \* the status line
  mainContent,       \* the main area
  metadata,          \* the metadata panel
  sidebar,           \* the history title, list and clear button as last rendered
  calls,             \* the handleAnalyze calls suspended at an await
  clock,             \* the last value Date.now() returned
  fetched,           \* the number of fetch() calls made
  left,              \* what the session may still do within the bounds
  insertLog,         \* the entries handed to saveToHistory since the store was empty
  last               \* what the last step did

vars == <<localStorage, activeAnalysisId, inputMode, formControls, status, mainContent,
          metadata, sidebar, calls, clock, fetched, left, insertLog, last>>

\* an entry an earlier session stored at time t
EarlierEntry(t) == [id |-> requestIdOf(t), timestamp |-> toISOString(t), input |-> <<"a">>,
                    inputMode |-> "text", features |-> DefaultFeatures, results |-> FullResults]

\* the full history an earlier session left behind, newest first
EarlierSession ==
  JSONstringify([i \in 1..MAX_HISTORY_ENTRIES |-> EarlierEntry(MAX_HISTORY_ENTRIES + 1 - i)])

LongSession == [req |-> LongRun, fault |-> 0, vary |-> 0]
ShortSession == [req |-> ShortRun, fault |-> MaxFaults, vary |-> MaxVariations]

\* what a step records about itself
Step(op) == [op |-> op, valid |-> FALSE, nonOk |-> FALSE, bodyKind |-> "", supplied |-> "",
             wrote |-> FALSE, evicted |-> null, activeAfterInsert |-> null, threw |-> FALSE,
             storeChanged |-> FALSE, selectionChanged |-> FALSE]

\* the field of the current mode holds a character other than a space, and a checkbox
\* is checked
EnteredAndSelected(mode, fields, features) ==
  LET raw == IF mode = "text" THEN fields.text ELSE fields.url IN
  /\ \E k \in 1..Len(raw) : raw[k] # " "
  /\ features.summarize \/ features.topics \/ features.sentiment \/ features.intents

\* the message the backend supplied in body, or "" when it supplied none
SuppliedMessage(body) == IF body.t = "obj" /\ body.error.t = "obj" THEN body.error.message ELSE ""

\* DOMContentLoaded: the module's initial values, then renderHistory()
Init ==
  /\ left \in {LongSession, ShortSession}
  /\ localStorage \in (IF left = LongSession THEN {AbsentSlot} \cup UnreadableSlots
                        ELSE {AbsentSlot, EarlierSession})
  /\ activeAnalysisId = null
  /\ inputMode = "text"
  /\ formControls = setFormDisabled(FALSE)
  /\ status = Hidden
  /\ mainContent = EmptyState
  /\ metadata = NoMetadata
  /\ sidebar = renderHistory(localStorage, null, NoSidebar).sidebar
  /\ calls = <<>>
  /\ clock = MAX_HISTORY_ENTRIES
  /\ fetched = 0
  /\ insertLog = [fromEmpty |-> localStorage = AbsentSlot, entries |-> <<>>]
  /\ last = [Step("load") EXCEPT !.threw = renderHistory(localStorage, null, NoSidebar).threw]

(* ------------------------------------------------------------------ *)
(* The analyze button: handleAnalyze up to its first await             *)
(* ------------------------------------------------------------------ *)

\* the value handleAnalyze reads: the field of the current mode, trimmed
inputValueOf(mode, fields) == IF mode = "text" THEN trim(fields.text) ELSE trim(fields.url)

\* the message of the validation that fails, or "" when the request may be sent
validationError(inputValue, features) ==
  IF inputValue = <<>> THEN "Please enter text or URL to analyze"
  ELSE IF ~someFeature(features) THEN "Please select at least one intelligence feature"
  ELSE ""

\* the locals of a call that has reached fetch()
newCall(t, mode, inputValue, features, store, activeId) ==
  [requestId |-> requestIdOf(t), inputValue |-> inputValue, features |-> features,
   body |-> requestBody(mode, inputValue), params |-> queryParams(features, 1) \o <<"language">>,
   stage |-> "fetch", ok |-> FALSE, storeAtIssue |-> store, activeAtIssue |-> activeId]

\* the values Date.now() may return to a click: a later millisecond, or, within the
\* bound, the millisecond of the session's previous request
DateNow(cost) == {clock + 1} \cup (IF fetched > 0 /\ left.vary > cost THEN {clock} ELSE {})

handleAnalyze(fields, features) ==
  LET inputValue == inputValueOf(inputMode, fields)
      message == validationError(inputValue, features)
      cost == IF features = DefaultFeatures THEN 0 ELSE 1
  IN
  /\ ~formControls.analyzeBtn
  /\ IF message # ""
       THEN /\ status' = showError(message)
            /\ last' = [Step("rejected") EXCEPT
                          !.valid = EnteredAndSelected(inputMode, fields, features)]
            /\ UNCHANGED <<localStorage, activeAnalysisId, inputMode, formControls, mainContent,
                           metadata, sidebar, calls, clock, fetched, left, insertLog>>
       ELSE /\ left.req > 0
            /\ left.vary >= cost
            /\ \E t \in DateNow(cost) :
                 /\ clock' = t
                 /\ calls' = Append(calls, newCall(t, inputMode, inputValue, features,
                                                   localStorage, activeAnalysisId))
                 /\ left' = [left EXCEPT !.req = @ - 1,
                                         !.vary = @ - cost - (IF t = clock THEN 1 ELSE 0)]
            /\ status' = showWorking("Analyzing text...")
            /\ formControls' = setFormDisabled(TRUE)
            /\ fetched' = fetched + 1
            /\ last' = [Step("sent") EXCEPT
                          !.valid = EnteredAndSelected(inputMode, fields, features)]
            /\ UNCHANGED <<localStorage, activeAnalysisId, inputMode, mainContent, metadata,
                           sidebar, insertLog>>

\* switchInputMode(mode): the click on a mode button
switchInputMode(mode) ==
  /\ ~(IF mode = "text" THEN formControls.textModeBtn ELSE formControls.urlModeBtn)
  /\ left.vary >= (IF mode = inputMode THEN 0 ELSE 1)
  /\ left' = [left EXCEPT !.vary = @ - (IF mode = inputMode THEN 0 ELSE 1)]
  /\ inputMode' = mode
  /\ last' = Step("switched")
  /\ UNCHANGED <<localStorage, activeAnalysisId, formControls, status, mainContent, metadata,
                 sidebar, calls, clock, fetched, insertLog>>

(* ------------------------------------------------------------------ *)
(* The rest of handleAnalyze: after fetch() and after response.json()  *)
(* ------------------------------------------------------------------ *)

\* calls without the call at position i
RemoveAt(seq, i) == SubSeq(seq, 1, i - 1) \o SubSeq(seq, i + 1, Len(seq))

\* error.message || 'Failed to analyze text'
caughtMessage(message) == IF message # "" THEN message ELSE "Failed to analyze text"

\* a message that ignores what the backend sent
backendMessageGeneric(body) == "Analysis failed"

\* data.error?.message || 'Analysis failed'
backendMessage(body) ==
  IF body.error.t = "obj" /\ body.error.message # "" THEN body.error.message
  ELSE "Analysis failed"

\* a handler without the finally block
finallySkipped == formControls

\* the finally block
finallyControls == setFormDisabled(FALSE)

\* fetch() rejects: catch, finally
fetchRejects(i, reason) ==
  /\ calls[i].stage = "fetch"
  /\ left.fault > 0
  /\ left' = [left EXCEPT !.fault = @ - 1]
  /\ status' = showError(caughtMessage(reason))
  /\ formControls' = finallyControls
  /\ calls' = RemoveAt(calls, i)
  /\ last' = Step("network-error")
  /\ UNCHANGED <<localStorage, activeAnalysisId, inputMode, mainContent, metadata, sidebar,
                 clock, fetched, insertLog>>

\* fetch() resolves with a response whose status is 2xx (ok) or not: await response.json()
fetchResolves(i, ok) ==
  /\ calls[i].stage = "fetch"
  /\ left.fault >= (IF ok THEN 0 ELSE 1)
  /\ left' = [left EXCEPT !.fault = @ - (IF ok THEN 0 ELSE 1)]
  /\ calls' = [calls EXCEPT ![i].stage = "json", ![i].ok = ok]
  /\ last' = Step("response")
  /\ UNCHANGED <<localStorage, activeAnalysisId, inputMode, formControls, status, mainContent,
                 metadata, sidebar, clock, fetched, insertLog>>

\* the entry handleAnalyze builds; inputMode is the module variable as it is now
historyEntry(call, mode, results, now) ==
  [id |-> call.requestId, timestamp |-> toISOString(now), input |-> call.inputValue,
   inputMode |-> mode, features |-> call.features, results |-> results]

\* an insert into the history as it was when the request was sent
saveToHistoryAsIssued(store, bar, activeId, entry, writeOk) ==
  LET history == getHistory(calls[1].storeAtIssue) IN
  IF history.t # "array" \/ ~writeOk
    THEN [store |-> store, sidebar |-> bar, wrote |-> FALSE, evicted |-> null,
          activeAfter |-> activeId]
    ELSE LET kept == JSONstringify(trimmedWith(history.items, entry))
             dropped == droppedBy(history.items, entry)
         IN [store |-> kept, sidebar |-> renderHistory(kept, activeId, bar).sidebar,
             wrote |-> TRUE, evicted |-> IF dropped = <<>> THEN null ELSE dropped[1].id,
             activeAfter |-> activeId]

\* an insert that removes the key before it writes, so that a failed write loses the history
saveToHistoryRemovesFirst(store, bar, activeId, entry, writeOk) ==
  LET history == getHistory(store) IN
  IF history.t # "array" \/ ~writeOk
    THEN [store |-> IF history.t = "array" THEN AbsentSlot ELSE store, sidebar |-> bar,
          wrote |-> FALSE, evicted |-> null, activeAfter |-> activeId]
    ELSE LET kept == JSONstringify(trimmedWith(history.items, entry))
             dropped == droppedBy(history.items, entry)
         IN [store |-> kept, sidebar |-> renderHistory(kept, activeId, bar).sidebar,
             wrote |-> TRUE, evicted |-> IF dropped = <<>> THEN null ELSE dropped[1].id,
             activeAfter |-> activeId]

\* saveToHistory(entry): the store and the sidebar it leaves, the id of the record it
\* dropped and activeAnalysisId as it is when the call returns (the function never
\* assigns it). A history that is no array (unshift throws) and a write that throws
\* are caught and logged.
saveToHistory(store, bar, activeId, entry, writeOk) ==
  LET history == getHistory(store) IN
  IF history.t # "array" \/ ~writeOk
    THEN [store |-> store, sidebar |-> bar, wrote |-> FALSE, evicted |-> null,
          activeAfter |-> activeId]
    ELSE LET kept == JSONstringify(trimmedWith(history.items, entry))
             dropped == droppedBy(history.items, entry)
         IN [store |-> kept, sidebar |-> renderHistory(kept, activeId, bar).sidebar,
             wrote |-> TRUE, evicted |-> IF dropped = <<>> THEN null ELSE dropped[1].id,
             activeAfter |-> activeId]

\* a path of handleAnalyze that ends in the catch block before anything is stored
caught(message, op) ==
  [op |-> op, status |-> showError(caughtMessage(message)), store |-> localStorage,
   sidebar |-> sidebar, main |-> mainContent, meta |-> metadata, active |-> activeAnalysisId,
   saved |-> FALSE, wrote |-> FALSE, evicted |-> null, activeAfterInsert |-> null]

\* handleAnalyze from the parsed body to the end of the try block
afterJson(call, body, writeOk) ==
  IF body.t = "unparsable" THEN caught("Unexpected token in JSON", "parse-error")
  ELSE IF ~call.ok THEN
    (IF body.t = "null" THEN caught("Cannot read properties of null", "http-error")
     ELSE caught(backendMessage(body), "http-error"))
  ELSE IF body.t = "null" THEN caught("Cannot read properties of null", "null-body")
  ELSE
    LET entry == historyEntry(call, inputMode, body.results, clock)
        saved == saveToHistory(localStorage, sidebar, activeAnalysisId, entry, writeOk)
        shown == displayResults(body.results, call.features)
    IN IF shown.threw
         THEN [op |-> "render-error", status |-> showError(caughtMessage(shown.message)),
               store |-> saved.store, sidebar |-> saved.sidebar, main |-> mainContent,
               meta |-> metadata, active |-> activeAnalysisId,
               saved |-> TRUE, wrote |-> saved.wrote, evicted |-> saved.evicted,
               activeAfterInsert |-> saved.activeAfter]
         ELSE [op |-> "completed", status |-> Hidden,
               store |-> saved.store, sidebar |-> saved.sidebar,
               main |-> [t |-> "results", blocks |-> shown.blocks],
               meta |-> displayMetadata(call.requestId, inputMode, call.inputValue),
               active |-> call.requestId,
               saved |-> TRUE, wrote |-> saved.wrote, evicted |-> saved.evicted,
               activeAfterInsert |-> saved.activeAfter]

\* what a body costs the session: a fault (no usable body, or a failed write) or a
\* variation (results other than the full ones)
faultOf(call, body, writeOk) == IF call.ok /\ (body.t # "obj" \/ ~writeOk) THEN 1 ELSE 0
variationOf(call, body) == IF call.ok /\ body.t = "obj" /\ body.results # FullResults THEN 1 ELSE 0

\* response.json() settles: the rest of the try block, catch, finally
jsonSettles(i, body, writeOk) ==
  LET call == calls[i]
      out == afterJson(call, body, writeOk)
  IN
  /\ call.stage = "json"
  /\ (~call.ok \/ body.t # "obj") => writeOk
  /\ left.fault >= faultOf(call, body, writeOk)
  /\ left.vary >= variationOf(call, body)
  /\ left' = [left EXCEPT !.fault = @ - faultOf(call, body, writeOk),
                          !.vary = @ - variationOf(call, body)]
  /\ status' = out.status
  /\ localStorage' = out.store
  /\ sidebar' = out.sidebar
  /\ mainContent' = out.main
  /\ metadata' = out.meta
  /\ activeAnalysisId' = out.active
  /\ formControls' = finallyControls
  /\ calls' = RemoveAt(calls, i)
  /\ insertLog' = IF out.saved
                    THEN [insertLog EXCEPT !.entries =
                            <<[entry |-> historyEntry(call, inputMode, body.results, clock),
                               wrote |-> out.wrote]>> \o @]
                    ELSE insertLog
  /\ last' = [Step(out.op) EXCEPT !.nonOk = ~call.ok, !.bodyKind = body.t,
                !.supplied = SuppliedMessage(body), !.wrote = out.wrote,
                !.evicted = out.evicted, !.activeAfterInsert = out.activeAfterInsert,
                !.storeChanged = (call.storeAtIssue # localStorage),
                !.selectionChanged = (call.activeAtIssue # activeAnalysisId)]
  /\ UNCHANGED <<inputMode, clock, fetched>>

(* ------------------------------------------------------------------ *)
(* The history sidebar                                                 *)
(* ------------------------------------------------------------------ *)

\* the items of a list of n a click is tried on: the newest and the oldest
ClickedItems(n) == {1, n} \cap (1..n)

\* the click handler renderHistory attached to item i of the list
historyItemClick(i) ==
  LET entry == sidebar.items[i].entry
      shown == displayResults(entry.results, entry.features)
  IN
  /\ activeAnalysisId' = entry.id
  /\ IF shown.threw
       THEN UNCHANGED <<mainContent, metadata, sidebar>>
       ELSE /\ mainContent' = [t |-> "results", blocks |-> shown.blocks]
            /\ metadata' = displayMetadata(entry.id, entry.inputMode, entry.input)
            /\ sidebar' = renderHistory(localStorage, entry.id, sidebar).sidebar
  /\ last' = [Step("selected") EXCEPT !.threw = shown.threw]
  /\ UNCHANGED <<localStorage, inputMode, formControls, status, calls, clock, fetched, left,
                 insertLog>>

\* a clear that forgets to reset the selection
selectionKept == activeAnalysisId

\* activeAnalysisId = null, in handleClearHistory
selectionCleared == null

\* handleClearHistory(): the click on the clear button, and the answer to confirm()
handleClearHistory(confirmed) ==
  /\ sidebar.clearShown
  /\ IF confirmed
       THEN /\ localStorage' = AbsentSlot
            /\ activeAnalysisId' = selectionCleared
            /\ sidebar' = renderHistory(AbsentSlot, selectionCleared, sidebar).sidebar
            /\ mainContent' = EmptyState
            /\ metadata' = [metadata EXCEPT !.shown = FALSE]
            /\ insertLog' = [fromEmpty |-> TRUE, entries |-> <<>>]
            /\ last' = Step("cleared")
       ELSE /\ last' = Step("clear-declined")
            /\ UNCHANGED <<localStorage, activeAnalysisId, sidebar, mainContent, metadata,
                           insertLog>>
  /\ UNCHANGED <<inputMode, formControls, status, calls, clock, fetched, left>>

(* ------------------------------------------------------------------ *)
(* The specification                                                   *)
(* ------------------------------------------------------------------ *)

Next ==
  \/ \E fields \in InputFields, features \in Toggles : handleAnalyze(fields, features)
  \/ \E mode \in {"text", "url"} : switchInputMode(mode)
  \/ \E i \in DOMAIN calls, reason \in NetworkErrors : fetchRejects(i, reason)
  \/ \E i \in DOMAIN calls, ok \in BOOLEAN : fetchResolves(i, ok)
  \/ \E i \in DOMAIN calls, body \in Bodies, writeOk \in BOOLEAN : jsonSettles(i, body, writeOk)
  \/ \E i \in ClickedItems(Len(sidebar.items)) : historyItemClick(i)
  \/ \E confirmed \in BOOLEAN : handleClearHistory(confirmed)

Spec == Init /\ [][Next]_vars

(* ------------------------------------------------------------------ *)
(* The page next to another page of the same origin                    *)
(* ------------------------------------------------------------------ *)

\* localStorage is shared by the pages of the origin: the same page open in another tab
\* runs handleClearHistory and removes the key, of which this page hears nothing (it
\* listens to no storage event)
storageCleared ==
  /\ localStorage # AbsentSlot
  /\ localStorage' = AbsentSlot
  /\ insertLog' = [fromEmpty |-> TRUE, entries |-> <<>>]
  /\ last' = Step("storage-cleared")
  /\ UNCHANGED <<activeAnalysisId, inputMode, formControls, status, mainContent, metadata,
                 sidebar, calls, clock, fetched, left>>

SharedNext == Next \/ storageCleared

SharedSpec == Init /\ [][SharedNext]_vars

(* ------------------------------------------------------------------ *)
(* The page reloaded                                                   *)
(* ------------------------------------------------------------------ *)

\* a session that sends no further request
Exhausted == [req |-> 0, fault |-> 0, vary |-> 0]

\* the user reloads the page: the module state and the document are fresh, a call that is
\* suspended is gone with the old page, the slot is what it was; DOMContentLoaded runs
\* renderHistory() again
reload ==
  /\ activeAnalysisId' = null
  /\ inputMode' = "text"
  /\ formControls' = setFormDisabled(FALSE)
  /\ status' = Hidden
  /\ mainContent' = EmptyState
  /\ metadata' = NoMetadata
  /\ sidebar' = renderHistory(localStorage, null, NoSidebar).sidebar
  /\ calls' = <<>>
  /\ left' = Exhausted
  /\ last' = [Step("reloaded") EXCEPT !.threw = renderHistory(localStorage, null, NoSidebar).threw]
  /\ UNCHANGED <<localStorage, clock, fetched, insertLog>>

RestartNext == Next \/ reload

RestartSpec == Init /\ [][RestartNext]_vars

(* ------------------------------------------------------------------ *)
(* The presenter on a stored record of any shape                       *)
(* ------------------------------------------------------------------ *)

\* what a field of the results may be: a falsy value (undefined, null), an object
\* without content, or data
FieldStates == {"absent", "empty", "data"}

\* the results a record may have been stored with
StoredResults ==
  {undefined} \cup {[t |-> "obj", summary |-> a, topics |-> b, sentiments |-> c, intents |-> d] :
                      a \in FieldStates, b \in FieldStates, c \in FieldStates, d \in FieldStates}

\* the features a record may have been stored with: at least one checked
CheckedFeatures ==
  {f \in [{FeatureNames[i] : i \in 1..Len(FeatureNames)} -> BOOLEAN] : someFeature(f)}

\* the page loads on a store of one such record; the user clicks it and may clear
ReplayInit ==
  /\ left = [req |-> 0, fault |-> 0, vary |-> 0]
  /\ \E r \in StoredResults, f \in CheckedFeatures :
       localStorage = JSONstringify(<<[EarlierEntry(1) EXCEPT !.results = r, !.features = f]>>)
  /\ activeAnalysisId = null
  /\ inputMode = "text"
  /\ formControls = setFormDisabled(FALSE)
  /\ status = Hidden
  /\ mainContent = EmptyState
  /\ metadata = NoMetadata
  /\ sidebar = renderHistory(localStorage, null, NoSidebar).sidebar
  /\ calls = <<>>
  /\ clock = MAX_HISTORY_ENTRIES
  /\ fetched = 0
  /\ insertLog = [fromEmpty |-> FALSE, entries |-> <<>>]
  /\ last = [Step("load") EXCEPT !.threw = renderHistory(localStorage, null, NoSidebar).threw]

ReplayNext ==
  \/ \E i \in ClickedItems(Len(sidebar.items)) : historyItemClick(i)
  \/ \E confirmed \in BOOLEAN : handleClearHistory(confirmed)

ReplaySpec == ReplayInit /\ [][ReplayNext]_vars

(* ------------------------------------------------------------------ *)
(* Properties                                                          *)
(* ------------------------------------------------------------------ *)

\* the records of the store, newest first, as getHistory returns them
History == getHistory(localStorage).items

\* the ids of the records of the store
HistoryIds == {History[i].id : i \in 1..Len(History)}

\* this step handed an entry to saveToHistory and the write succeeded
Inserted ==
  /\ Len(insertLog'.entries) = Len(insertLog.entries) + 1
  /\ insertLog'.entries[1].wrote

\* C1: in every reachable state the active selection is null or the id of a record of
\* the persisted history.
ActiveSelectionIsStored ==
  activeAnalysisId = null \/ activeAnalysisId \in HistoryIds

\* C2: an insert into a store of MAX_HISTORY_ENTRIES records removes exactly the oldest
\* record, and if that record was the active selection, the selection is null when the
\* insert returns (and so in the renderHistory call the insert makes).
EvictionClearsSelection ==
  [][(Inserted /\ Len(History) = MAX_HISTORY_ENTRIES) =>
       /\ History' = <<insertLog'.entries[1].entry>> \o SubSeq(History, 1, MAX_HISTORY_ENTRIES - 1)
       /\ (History[MAX_HISTORY_ENTRIES].id = activeAnalysisId => last'.activeAfterInsert = null)
    ]_vars

\* C3: the store never holds more than MAX_HISTORY_ENTRIES records.
HistoryWithinCapacity ==
  Len(History) >= 0 /\ Len(History) <= MAX_HISTORY_ENTRIES

\* C3 witness: an insert into a full store has dropped a record and the store is full
FullStoreAfterEviction ==
  last.wrote /\ last.evicted # null /\ Len(History) = MAX_HISTORY_ENTRIES

\* the entries of log, newest first, without the flag of their write
RECURSIVE entriesOf(_)
entriesOf(log) == IF log = <<>> THEN <<>> ELSE <<Head(log).entry>> \o entriesOf(Tail(log))

\* the entries of log whose write succeeded
RECURSIVE writtenOf(_)
writtenOf(log) ==
  IF log = <<>> THEN <<>>
  ELSE (IF Head(log).wrote THEN <<Head(log).entry>> ELSE <<>>) \o writtenOf(Tail(log))

\* the first n elements of seq, or all of it
FirstN(seq, n) == SubSeq(seq, 1, Min(Len(seq), n))

ClearEmptiesEverything ==
  last.op = "cleared" => (History = <<>> /\ localStorage = AbsentSlot /\ activeAnalysisId = null)

\* C5 witness: the history was cleared while a request was in flight that was issued on
\* a full store with a record selected
ClearedWhileInFlight ==
  /\ last.op = "cleared"
  /\ calls # <<>>
  /\ calls[1].storeAtIssue = EarlierSession
  /\ calls[1].activeAtIssue # null

\* the messages the handler falls back to
GenericMessages == {"Analysis failed", "Failed to analyze text"}

RecordOnlyOnSuccess ==
  [][\A i \in DOMAIN calls, body \in Bodies, writeOk \in BOOLEAN :
       jsonSettles(i, body, writeOk) =>
         IF calls[i].ok /\ body.t = "obj" /\ body.error.t = "undef" /\ body.results.t = "obj"
           THEN Len(insertLog'.entries) = Len(insertLog.entries) + 1
           ELSE /\ insertLog' = insertLog
                /\ localStorage' = localStorage
                /\ activeAnalysisId' = activeAnalysisId
    ]_vars

\* C8: a click on analyze sends exactly one request if the field of the current mode
\* holds a character other than a space and a checkbox is checked; otherwise it sends
\* none, shows an error and leaves the form, the store and the selection alone. Nothing
\* but such a click sends a request.
AnalyzeSendsIffValid ==
  [][/\ fetched' # fetched => (fetched' = fetched + 1 /\ last'.op = "sent")
     /\ last'.op = "sent" =>
          (last'.valid /\ fetched' = fetched + 1 /\ Len(calls') = Len(calls) + 1)
     /\ last'.op = "rejected" =>
          /\ ~last'.valid
          /\ fetched' = fetched
          /\ calls' = calls
          /\ status'.kind = "error"
          /\ formControls' = formControls
          /\ localStorage' = localStorage
          /\ activeAnalysisId' = activeAnalysisId
    ]_vars

\* C8 witness: a click with no checkbox checked was refused while the store held
\* records and one of them was selected
ClickRefusedForFeatures ==
  /\ last.op = "rejected"
  /\ status = showError("Please select at least one intelligence feature")
  /\ History # <<>>
  /\ activeAnalysisId # null

\* C9: at most one request is in flight, and while one is, every control of the form is
\* disabled and the input mode is the one the request was built with.
OneRequestInFlight ==
  /\ Len(calls) <= 1
  /\ calls # <<>> =>
       /\ formControls.analyzeBtn /\ formControls.textModeBtn /\ formControls.urlModeBtn
       /\ formControls.inputs /\ formControls.features /\ formControls.language
       /\ calls[1].body.key = inputMode

\* C9 witness: a history item was clicked while a request awaited its body
SelectedWhileInFlight ==
  last.op = "selected" /\ calls # <<>> /\ calls[1].stage = "json"

\* the steps that end a call of handleAnalyze
EndingSteps == {"network-error", "parse-error", "http-error", "null-body", "render-error",
                "completed"}

\* no control of the form is disabled
FormEnabled ==
  /\ ~formControls.analyzeBtn /\ ~formControls.textModeBtn /\ ~formControls.urlModeBtn
  /\ ~formControls.inputs /\ ~formControls.features /\ ~formControls.language

\* C10: when a call of handleAnalyze ends, and whenever none is in flight, the form is
\* enabled and the status line is hidden or shows an error.
FormEnabledWhenIdle ==
  (last.op \in EndingSteps \/ calls = <<>>) =>
     (FormEnabled /\ status.kind \in {"hidden", "error"})

\* C10 witness: a call ended in the catch block after the record was stored
EndedInRenderError ==
  last.op = "render-error" /\ last.wrote /\ calls = <<>>

\* C11: a slot that is absent, no JSON, or JSON but no array reads as the empty list, and
\* rendering the history from it raises no error.
UnreadableSlotReadsEmpty ==
  (localStorage.kind # "json" \/ localStorage.t # "array") =>
     /\ getHistory(localStorage) = emptyArray
     /\ ~renderHistory(localStorage, activeAnalysisId, sidebar).threw
     /\ ~last.threw

\* the body of a successful response: results and no error field
SuccessBody == [t |-> "obj", results |-> FullResults, error |-> NoError]

\* C12: when a successful analysis completes, whatever the slot held before, the new
\* record is at the head of the store, it is the active selection, and its result is the
\* one displayed.
SuccessStoresAndShows ==
  [][\A i \in DOMAIN calls, writeOk \in BOOLEAN :
       (jsonSettles(i, SuccessBody, writeOk) /\ calls[i].ok) =>
         /\ History' # <<>>
         /\ History'[1] = historyEntry(calls[i], inputMode, FullResults, clock)
         /\ activeAnalysisId' = calls[i].requestId
         /\ mainContent' = [t |-> "results",
                            blocks |-> resultBlocks(FullResults, calls[i].features, 1)]
         /\ status' = Hidden
    ]_vars

\* C13: no two records of the store have the same id.
HistoryIdsUnique ==
  \A i, j \in 1..Len(History) : i # j => History[i].id # History[j].id

\* the steps that insert nothing and clear nothing
QuietSteps == {"rejected", "sent", "switched", "network-error", "response", "parse-error",
               "http-error", "null-body", "selected", "clear-declined"}

ClickSelectsStoredRecord ==
  [][last'.op = "selected" =>
       (activeAnalysisId' \in HistoryIds \/ activeAnalysisId' = activeAnalysisId)]_vars

\* C16: a click on a history item sets the active selection to the id of its entry and
\* shows the stored result of that entry, gated by the entry's own features, and its
\* metadata; it sends no request and leaves the store and the form controls alone.
SelectionShowsStoredResult ==
  [][\A i \in DOMAIN sidebar.items :
       historyItemClick(i) =>
         LET entry == sidebar.items[i].entry IN
         /\ activeAnalysisId' = entry.id
         /\ mainContent'.t = "results"
         /\ \A k \in DOMAIN mainContent'.blocks :
              /\ entry.features[mainContent'.blocks[k].feature]
              /\ mainContent'.blocks[k].state =
                   entry.results[ResultField[mainContent'.blocks[k].feature]]
         /\ metadata'.shown /\ metadata'.id = entry.id
         /\ ~last'.threw
         /\ fetched' = fetched /\ calls' = calls
         /\ localStorage' = localStorage
         /\ formControls' = formControls
    ]_vars

\* C17: displayResults emits exactly one block for each feature whose flag is true, in
\* the order summarize, topics, sentiment, intents, and none for the others; a feature
\* whose field the results lack gets a no-data block, and nothing throws.
PresenterEmitsBlockPerFeature ==
  (last.op = "selected" /\ Len(sidebar.items) = 1) =>
     /\ ~last.threw
     /\ mainContent.t = "results"
     /\ [k \in 1..Len(mainContent.blocks) |-> mainContent.blocks[k].feature]
          = queryParams(sidebar.items[1].entry.features, 1)

\* the entries of the history list as last rendered
Listed == [i \in 1..Len(sidebar.items) |-> sidebar.items[i].entry]

\* C18: after a reload the page lists the records the program wrote, with the same
\* fields and in the same newest-first order, and nothing is selected.
HistorySurvivesRestart ==
  last.op = "reloaded" =>
     /\ activeAnalysisId = null
     /\ \A i \in DOMAIN sidebar.items : ~sidebar.items[i].active
     /\ localStorage.kind = "json" /\ localStorage.t = "array" => Listed = History
     /\ insertLog.fromEmpty =>
          Listed = FirstN(writtenOf(insertLog.entries), MAX_HISTORY_ENTRIES)

\* C18 witness: the page was reloaded on a full store that this session wrote from empty
RestartedOnFullStore ==
  /\ last.op = "reloaded"
  /\ insertLog.fromEmpty
  /\ Len(writtenOf(insertLog.entries)) >= MAX_HISTORY_ENTRIES
  /\ Len(Listed) = MAX_HISTORY_ENTRIES

\* C19: between handlers, the history list as last rendered marks exactly the record
\* whose id is the active selection, and the main area shows the result of that record;
\* after a successful analysis the record marked is the new one.
ListMarksActiveRecord ==
  /\ \A i \in DOMAIN sidebar.items :
       sidebar.items[i].active <=> sidebar.items[i].entry.id = activeAnalysisId
  /\ (last.op = "completed" /\ last.wrote) => sidebar.items[1].active
  /\ \A i \in DOMAIN sidebar.items :
       sidebar.items[i].active =>
         mainContent = [t |-> "results",
                        blocks |-> resultBlocks(sidebar.items[i].entry.results,
                                                sidebar.items[i].entry.features, 1)]

\* C20: the entry built for a request carries the id, the input value and the features
\* of the request and the input mode that chose the key of its body, and that entry is
\* what is stored, whatever the user did while the request was in flight.
StoredModeIsRequestMode ==
  [][Len(insertLog'.entries) = Len(insertLog.entries) + 1 =>
       LET entry == insertLog'.entries[1].entry
           call == calls[1]
       IN /\ entry.id = call.requestId
          /\ entry.inputMode = call.body.key
          /\ entry.input = call.body.value
          /\ queryParams(entry.features, 1) \o <<"language">> = call.params
          /\ insertLog'.entries[1].wrote => History'[1] = entry
    ]_vars

\* C20 witness: the record of a request sent in url mode was stored
UrlRequestStored ==
  /\ last.op = "completed"
  /\ last.wrote
  /\ History[1].inputMode = "url"
  /\ inputMode = "url"

WriteFailureIsSilent ==
  [][(last'.op = "completed" /\ ~last'.wrote /\ getHistory(localStorage).t = "array") =>
       /\ localStorage' = localStorage
       /\ status' = Hidden
       /\ mainContent'.t = "results"
       /\ metadata'.shown /\ metadata'.id = calls[1].requestId
       /\ activeAnalysisId' = calls[1].requestId
       /\ formControls' = setFormDisabled(FALSE)
       /\ calls' = <<>>
    ]_vars

\* C22 witness: the write of an insert into the full store failed; the ten records are
\* still stored and the new result is shown
WriteFailedResultShown ==
  /\ last.op = "completed"
  /\ ~last.wrote
  /\ localStorage = EarlierSession
  /\ status = Hidden
  /\ mainContent.t = "results"
  /\ activeAnalysisId = requestIdOf(MAX_HISTORY_ENTRIES + 1)

====
